---------------------------- MODULE Spec2Model ----------------------------
(***************************************************************************)
(* A model of app/bot.py: the message-chunking algorithm split_message     *)
(* and the relay pipeline of BetterLover.on_message with its three         *)
(* process_* coroutines.                                                   *)
(*                                                                         *)
(* Strings are run-length encoded: a string is a sequence of runs          *)
(* [c |-> token, n |-> repeat count], n >= 1, no two adjacent runs with    *)
(* the same token.  A token is one character or a literal piece of text    *)
(* that neither starts nor ends with whitespace and holds no newline, so   *)
(* that split and strip never cut through it.  "aaa b" is                  *)
(* <<[c|->"a",n|->3], [c|->" ",n|->1], [c|->"b",n|->1]>>.  Two strings are *)
(* equal iff their encodings are, and strings as long as Discord's limit   *)
(* stay small values.                                                      *)
(***************************************************************************)
EXTENDS Integers, Sequences, FiniteSets, TLC

(***************************************************************************)
(* Bounds of the model.                                                    *)
(***************************************************************************)
\* the longest input of split_message explored, in runs
MaxRuns == 5
\* the longest newline run of an input of split_message
MaxNewlines == 2

(***************************************************************************)
(* Program constants.                                                      *)
(***************************************************************************)
MAX_DISCORD_LENGTH == 1990

\* the length Discord accepts for a message, which MAX_DISCORD_LENGTH stays
\* below to "leave some room for the code block markers"
PLATFORM_LIMIT == MAX_DISCORD_LENGTH + 10

(***************************************************************************)
(* Strings.                                                                *)
(***************************************************************************)
NL == "\n"
SP == " "

\* the characters str.strip() removes (of the alphabet used here)
IsSpace(c) == c \in {SP, NL}

Run(c, n) == [c |-> c, n |-> n]

\* a literal of one token
Tok(t) == << Run(t, 1) >>

EmptyStr == << >>

\* len(s)
RECURSIVE StrLen(_)
StrLen(s) ==
    IF s = << >> THEN 0 ELSE Head(s).n * Len(Head(s).c) + StrLen(Tail(s))

\* s + t
Cat(s, t) ==
    IF s = << >> THEN t
    ELSE IF t = << >> THEN s
    ELSE IF s[Len(s)].c = t[1].c
         THEN SubSeq(s, 1, Len(s) - 1)
              \o << Run(t[1].c, s[Len(s)].n + t[1].n) >>
              \o Tail(t)
         ELSE s \o t

\* s.lstrip()
RECURSIVE LStrip(_)
LStrip(s) ==
    IF s = << >> THEN s
    ELSE IF IsSpace(Head(s).c) THEN LStrip(Tail(s))
    ELSE s

\* s.rstrip()
RECURSIVE RStrip(_)
RStrip(s) ==
    IF s = << >> THEN s
    ELSE IF IsSpace(s[Len(s)].c) THEN RStrip(SubSeq(s, 1, Len(s) - 1))
    ELSE s

\* s.strip()
Strip(s) == RStrip(LStrip(s))

\* the lines `acc` (never empty) after n more newline characters
RECURSIVE AddLines(_, _)
AddLines(acc, n) == IF n = 0 THEN acc ELSE AddLines(Append(acc, EmptyStr), n - 1)

\* s.split('\n'), from the lines `acc` of the text before s
RECURSIVE SplitFrom(_, _)
SplitFrom(acc, s) ==
    IF s = << >> THEN acc
    ELSE IF Head(s).c = NL
         THEN SplitFrom(AddLines(acc, Head(s).n), Tail(s))
         ELSE SplitFrom([acc EXCEPT ![Len(acc)] = Cat(@, << Head(s) >>)], Tail(s))

\* s.split('\n'): "" gives [""]
SplitLines(s) == SplitFrom(<< EmptyStr >>, s)

(***************************************************************************)
(* split_message.                                                          *)
(***************************************************************************)
\* Exceeds without the newline that joins the line to the chunk
Exceeds_NoSeparator(current_chunk, line) ==
    StrLen(current_chunk) + StrLen(line) > MAX_DISCORD_LENGTH

\* Exceeds that looks at the buffer only
Exceeds_IgnoresLine(current_chunk, line) ==
    StrLen(current_chunk) + 1 > MAX_DISCORD_LENGTH

\* len(current_chunk) + len(line) + 1 > MAX_DISCORD_LENGTH
Exceeds(current_chunk, line) ==
    StrLen(current_chunk) + StrLen(line) + 1 > MAX_DISCORD_LENGTH

\* one iteration of the loop over the lines; st = [chunks, current_chunk]
SplitStep(st, line) ==
    IF Exceeds(st.current_chunk, line)
    THEN [chunks |-> IF st.current_chunk # EmptyStr
                     THEN Append(st.chunks, Strip(st.current_chunk))
                     ELSE st.chunks,
          current_chunk |-> line]
    ELSE [chunks |-> st.chunks,
          current_chunk |-> IF st.current_chunk # EmptyStr
                            THEN Cat(Cat(st.current_chunk, << Run(NL, 1) >>), line)
                            ELSE line]

RECURSIVE SplitLoop(_, _)
SplitLoop(st, lines) ==
    IF lines = << >> THEN st ELSE SplitLoop(SplitStep(st, Head(lines)), Tail(lines))

\* SplitFlush that forgets the buffer left after the loop
SplitFlush_DropsLast(st) == st.chunks

\* SplitFlush that adds the buffer whether or not it is empty
SplitFlush_Unconditional(st) == Append(st.chunks, Strip(st.current_chunk))

\* the last chunk is added if it is not empty
SplitFlush(st) ==
    IF st.current_chunk # EmptyStr
    THEN Append(st.chunks, Strip(st.current_chunk))
    ELSE st.chunks

split_message(message) ==
    SplitFlush(SplitLoop([chunks |-> << >>, current_chunk |-> EmptyStr],
                         SplitLines(message)))

(***************************************************************************)
(* The inputs of split_message that are explored.                          *)
(***************************************************************************)
\* run lengths around the limit: 1988 + 1 + 1 fits, 995 + 995 + 1 does not
RunLengths == {1, 995, MAX_DISCORD_LENGTH - 2, MAX_DISCORD_LENGTH + 1}

Runs == [c : {"a", SP}, n : RunLengths] \cup [c : {NL}, n : 1..MaxNewlines]

Canonical(s) == \A i \in 1..(Len(s) - 1) : s[i].c # s[i + 1].c

Messages ==
    UNION { { s \in [1..k -> Runs] : Canonical(s) } : k \in 0..MaxRuns }

(***************************************************************************)
(* The dispatcher: the pure parts of on_message.                           *)
(***************************************************************************)
\* self.user
BOT == "bot"
\* f'<@{self.user.id}>' and f'<@!{self.user.id}>'
MENTION == "<@BOT>"
NICK_MENTION == "<@!BOT>"

URL_PREFIXES == {"http://", "https://"}
IMAGE_EXTENSIONS == {".jpg", ".jpeg", ".png", ".gif", ".webp"}

\* an attachment's content_type when Discord declares none (Python's None):
\* a run of length 0, which no string holds
None == << Run("None", 0) >>

\* s.replace(t, ''), t a token
RECURSIVE Remove(_, _)
Remove(s, t) ==
    IF s = << >> THEN s
    ELSE IF Head(s).c = t THEN Remove(Tail(s), t)
    ELSE Cat(<< Head(s) >>, Remove(Tail(s), t))

LowerTok(c) == IF c = ".PNG" THEN ".png" ELSE c

\* s.lower()
RECURSIVE Lower(_)
Lower(s) ==
    IF s = << >> THEN s
    ELSE Cat(<< Run(LowerTok(Head(s).c), Head(s).n) >>, Lower(Tail(s)))

\* s.startswith(prefixes), each prefix a token
StartsWith(s, prefixes) == s # << >> /\ s[1].c \in prefixes

\* t in s, t a token
Contains(s, t) == \E k \in 1..Len(s) : s[k].c = t

\* the two early returns of on_message without the test of the author
Ignored_NoSelfCheck(message) == ~message.mentioned

\* the two early returns of on_message: the bot is not mentioned, or the
\* message is the bot's own
Ignored(message) == ~message.mentioned \/ message.author = BOT

\* the content with the mentions removed but the whitespace around kept
StrippedContent_NoStrip(message) ==
    Remove(Remove(message.content, MENTION), NICK_MENTION)

\* content = message.content.replace(...).replace(...).strip()
StrippedContent(message) ==
    Strip(Remove(Remove(message.content, MENTION), NICK_MENTION))

\* the if / elif / else that picks the coroutine; "AttributeError" when
\* content_type is None and .startswith is called on it
Classify(message, content) ==
    IF message.attachments # << >> /\ message.attachments[1].content_type = None
    THEN "AttributeError"
    ELSE IF /\ message.attachments # << >>
            /\ StartsWith(message.attachments[1].content_type, {"image/"})
    THEN "process_image"
    ELSE IF /\ StartsWith(content, URL_PREFIXES)
            /\ \E ext \in IMAGE_EXTENSIONS : Contains(Lower(content), ext)
    THEN "process_image_url"
    ELSE "process_text"

(***************************************************************************)
(* The relay pipeline: the pure parts of process_text, process_image and   *)
(* process_image_url, which share their shape.                             *)
(***************************************************************************)
\* the reactions: the hourglass and the cross mark
WORKING == "hourglass"
FAILURE == "cross"

\* the backquote, which a TLA+ string cannot hold
BQ == "'"

DISCLAIMER == "Please double-check all info as Better Lover can make mistakes."
PROMPT == Tok("Please provide some tour dates, an image, or an image URL.")
TIMEOUT_REPLY == Tok("Error: Request timed out. Please try again.")
NO_DATES == Tok("Error: No dates found")
UNKNOWN_ERROR == Tok("Unknown error")

\* f"```\n{chunk}\n```\n\nPlease double-check all info as ..."
FirstReply(chunk) ==
    Cat(Cat(<< Run(BQ, 3), Run(NL, 1) >>, chunk),
        << Run(NL, 1), Run(BQ, 3), Run(NL, 2), Run(DISCLAIMER, 1) >>)

\* f"```\n(continued...)\n{chunk}\n```"
ContinuedReply(chunk) ==
    Cat(Cat(<< Run(BQ, 3), Run(NL, 1), Run("(continued...)", 1), Run(NL, 1) >>, chunk),
        << Run(NL, 1), Run(BQ, 3) >>)

\* f"Error: {text}"
ErrorReply(text) == Cat(<< Run("Error:", 1), Run(SP, 1) >>, text)

\* the error detail that always takes the raw body
ErrorDetail_RawBody(response) == response.text

\* error_detail of a response that is not 200: the detail of a JSON body
\* ('Unknown error' when it has none), the raw body when it is not JSON
ErrorDetail(response) ==
    IF response.json
    THEN IF response.has_key THEN response.value ELSE UNKNOWN_ERROR
    ELSE response.text

\* result.get("formatted_dates", "Error: No dates found")
FormattedDates(response) ==
    IF response.has_key THEN response.value ELSE NO_DATES

\* the follow-ups that send every chunk again
FollowUps_All(chunks) == chunks

\* chunks[1:]
FollowUps(chunks) == Tail(chunks)

\* an except clause order that lets `except Exception` take the timeout
Handler_NoTimeoutClause(kind) == "ex_clear"

\* which except clause of process_* takes an exception raised in its try
Handler(kind) == IF kind = "TimeoutError" THEN "to_clear" ELSE "ex_clear"

(***************************************************************************)
(* The environment: inbound messages, the formatting API, image hosts,     *)
(* Discord.                                                                *)
(***************************************************************************)
\* the longest message text explored, in tokens
MaxContentRuns == 3
\* how many Discord operations of one run may fail with an error other than
\* NotFound
MaxFaults == 1

ContentTokens == {MENTION, SP, "http://", ".PNG", "x"}

Contents ==
    UNION { { s \in [1..k -> [c : ContentTokens, n : {1}]] : Canonical(s) }
            : k \in 0..MaxContentRuns }

Attachment(content_type) == [content_type |-> content_type]

IMAGE_PNG == << Run("image/", 1), Run("png", 1) >>
TEXT_PLAIN == << Run("text/", 1), Run("plain", 1) >>

AttachmentLists ==
    { << >>, << Attachment(IMAGE_PNG) >>, << Attachment(TEXT_PLAIN) >>,
      << Attachment(None) >>, << Attachment(TEXT_PLAIN), Attachment(IMAGE_PNG) >> }

\* a message that holds the bot's mention token mentions the bot
InboundMessages ==
    { message \in [mentioned : BOOLEAN, author : {BOT, "user"},
                   content : Contents, attachments : AttachmentLists] :
        (Contains(message.content, MENTION) \/ Contains(message.content, NICK_MENTION))
            => message.mentioned }

NoMessage ==
    [mentioned |-> FALSE, author |-> "user", content |-> EmptyStr, attachments |-> << >>]

\* values of formatted_dates: "", " ", "A\nB", two chunks, three chunks
ResultTexts ==
    { EmptyStr,
      << Run(SP, 1) >>,
      << Run("A", 1), Run(NL, 1), Run("B", 1) >>,
      << Run("a", 1000), Run(NL, 1), Run("b", 1000) >>,
      << Run("a", MAX_DISCORD_LENGTH), Run(NL, 1), Run("b", MAX_DISCORD_LENGTH),
         Run(NL, 1), Run("c", 5) >> }

BAD_INPUT == Tok("bad input")

\* what a call of the formatting API comes to: a response (its status, whether
\* its body is a JSON object, whether that has the key read from it, the key's
\* value, the raw body when it is not JSON), a timeout, or a connection error
Response(status, json, has_key, value, text) ==
    [outcome |-> "response", status |-> status, json |-> json,
     has_key |-> has_key, value |-> value, text |-> text]

NoResponse(outcome) ==
    [outcome |-> outcome, status |-> 0, json |-> FALSE,
     has_key |-> FALSE, value |-> EmptyStr, text |-> EmptyStr]

ApiOutcomes ==
    { Response(200, TRUE, TRUE, r, EmptyStr) : r \in ResultTexts }
    \cup { Response(200, TRUE, FALSE, EmptyStr, EmptyStr),
           Response(200, FALSE, FALSE, EmptyStr, Tok("OK")),
           Response(500, TRUE, TRUE, BAD_INPUT, EmptyStr),
           Response(500, TRUE, FALSE, EmptyStr, EmptyStr),
           Response(500, FALSE, FALSE, EmptyStr, Tok("Internal Server Error")),
           NoResponse("TimeoutError"),
           NoResponse("ClientError") }

\* what the GET of a user's URL comes to
DownloadOutcomes == {"200", "404", "TimeoutError", "ClientError"}

\* what attachment.read() comes to
ReadOutcomes == {"ok", "HTTPException", "NotFound"}

\* str(e) of an exception named by its class
ExcText(kind) == Tok(kind)

Msgs == {"m1", "m2"}

VARIABLES
    sm_pc,        \* "call" before split_message ran, "return" after
    sm_message,   \* the argument of split_message
    sm_chunks,    \* what split_message returned
    msg,          \* the inbound message of each dispatch
    pc,           \* where each dispatch stands: the await it is about to do
    proc,         \* the process_* coroutine on_message called, "" before
    content,      \* on_message's content
    e,            \* str(e) of the exception being handled
    error_detail, \* process_*'s error_detail
    api_response, \* what the POST to the formatting API came to
    chunks,       \* process_*'s chunks
    idx,          \* the position of the loop over chunks[1:]
    reactions,    \* the bot's reactions on the message
    replies,      \* the replies sent to the message, in order
    ops,          \* the Discord operations attempted on the message, in order
    gone,         \* whether the message was deleted
    faults,       \* Discord operations that failed with another error
    calls,        \* the outbound HTTP calls of the dispatch, in order
    log,          \* the dispatch's logger.error messages
    raised        \* the exception that left on_message, "" when none

smVars == << sm_pc, sm_message, sm_chunks >>
chatVars == << reactions, replies, ops, gone, faults >>
localVars == << proc, content, error_detail, api_response, chunks, idx >>
vars == << sm_pc, sm_message, sm_chunks, msg, pc, proc, content, e, error_detail,
           api_response, chunks, idx, reactions, replies, ops, gone, faults,
           calls, log, raised >>

\* the state in which the messages of `delivered`, drawn from `inputs`, await
\* their on_message
DispatchInitFrom(delivered, inputs) ==
    /\ \E inbound \in [delivered -> inputs] :
           msg = [m \in Msgs |-> IF m \in delivered THEN inbound[m] ELSE NoMessage]
    /\ pc = [m \in Msgs |-> IF m \in delivered THEN "on_message" ELSE "none"]
    /\ proc = [m \in Msgs |-> ""]
    /\ content = [m \in Msgs |-> EmptyStr]
    /\ e = [m \in Msgs |-> EmptyStr]
    /\ error_detail = [m \in Msgs |-> EmptyStr]
    /\ api_response = [m \in Msgs |-> NoResponse("none")]
    /\ chunks = [m \in Msgs |-> << >>]
    /\ idx = [m \in Msgs |-> 0]
    /\ reactions = [m \in Msgs |-> {}]
    /\ replies = [m \in Msgs |-> << >>]
    /\ ops = [m \in Msgs |-> << >>]
    /\ gone = [m \in Msgs |-> FALSE]
    /\ faults = 0
    /\ calls = [m \in Msgs |-> << >>]
    /\ log = [m \in Msgs |-> << >>]
    /\ raised = [m \in Msgs |-> ""]

DispatchInit(delivered) == DispatchInitFrom(delivered, InboundMessages)

(***************************************************************************)
(* split_message on its own.                                               *)
(***************************************************************************)
SplitInit ==
    /\ sm_pc = "call"
    /\ sm_message \in Messages
    /\ sm_chunks = << >>
    /\ DispatchInit({})

SplitCall ==
    /\ sm_pc = "call"
    /\ sm_chunks' = split_message(sm_message)
    /\ sm_pc' = "return"
    /\ UNCHANGED << sm_message, msg, pc, e, log, raised, calls, chatVars, localVars >>

SplitNext == SplitCall

SplitSpec == SplitInit /\ [][SplitNext]_vars

(***************************************************************************)
(* Discord's operations on the message.  Once the message is deleted every *)
(* operation on it raises discord.NotFound; before, an operation succeeds, *)
(* finds the message just deleted, or fails with another HTTPException.    *)
(***************************************************************************)
Outcomes(m) ==
    IF gone[m] THEN {"NotFound"}
    ELSE {"ok", "NotFound"} \cup (IF faults < MaxFaults THEN {"HTTPException"} ELSE {})

\* await message.<op>(...) ending in res: op is "add_reaction" (of marker),
\* "clear_reactions" or "reply" (of text)
ChatOp(m, op, marker, text, res) ==
    /\ ops' = [ops EXCEPT ![m] = Append(@, [op |-> op, marker |-> marker, res |-> res])]
    /\ gone' = [gone EXCEPT ![m] = @ \/ res = "NotFound"]
    /\ faults' = IF res = "HTTPException" THEN faults + 1 ELSE faults
    /\ reactions' = [reactions EXCEPT ![m] =
                        IF res # "ok" THEN @
                        ELSE IF op = "add_reaction" THEN @ \cup {marker}
                        ELSE IF op = "clear_reactions" THEN {}
                        ELSE @]
    /\ replies' = [replies EXCEPT ![m] =
                        IF res = "ok" /\ op = "reply" THEN Append(@, text) ELSE @]

\* a client that keeps the exception being handled in one attribute of its
\* own, shared by every dispatch
Ctl_SharedError(m, label, exc, logged, out) ==
    /\ pc' = [pc EXCEPT ![m] = label]
    /\ e' = [o \in Msgs |-> exc]
    /\ log' = [log EXCEPT ![m] = @ \o logged]
    /\ raised' = [raised EXCEPT ![m] = out]

\* where the dispatch goes on, the exception it handles, what it logs, and
\* the exception that leaves on_message
Ctl(m, label, exc, logged, out) ==
    /\ pc' = [pc EXCEPT ![m] = label]
    /\ e' = [e EXCEPT ![m] = exc]
    /\ log' = [log EXCEPT ![m] = @ \o logged]
    /\ raised' = [raised EXCEPT ![m] = out]

Goto(m, label) == Ctl(m, label, e[m], << >>, raised[m])

\* a process_* that issues a failed outbound call again
RaiseInProcess_Retry(m, kind, text) ==
    IF pc[m] \in {"get", "post"}
    THEN Goto(m, pc[m])
    ELSE Ctl(m, "ex_clear", text, << "Error processing request" >>, raised[m])

\* an exception of class kind raised in the try of process_*: the except
\* clause that takes it logs and starts its three operations
RaiseInProcess(m, kind, text) ==
    IF Handler(kind) = "to_clear"
    THEN Ctl(m, "to_clear", e[m], << "Request timed out" >>, raised[m])
    ELSE Ctl(m, "ex_clear", text, << "Error processing request" >>, raised[m])

\* an exception raised in the try of on_message, which process_* let through
RaiseInOnMessage(m, text) == Ctl(m, "om_clear", text, << >>, raised[m])

\* an exception that nothing catches
Propagate(m, kind) == Ctl(m, "done", e[m], << >>, kind)

(***************************************************************************)
(* on_message.                                                             *)
(***************************************************************************)
\* from the event to the first await
OnMessage(m) ==
    /\ pc[m] = "on_message"
    /\ IF Ignored(msg[m])
       THEN /\ Goto(m, "done")
            /\ UNCHANGED content
       ELSE /\ content' = [content EXCEPT ![m] = StrippedContent(msg[m])]
            /\ IF content'[m] = EmptyStr /\ msg[m].attachments = << >>
               THEN Goto(m, "prompt")
               ELSE Goto(m, "ack")
    /\ UNCHANGED << smVars, msg, chatVars, calls,
                    proc, error_detail, api_response, chunks, idx >>

\* await message.reply("Please provide ..."), outside any try
Prompt(m) ==
    /\ pc[m] = "prompt"
    /\ \E res \in Outcomes(m) :
         /\ ChatOp(m, "reply", "", PROMPT, res)
         /\ IF res = "ok" THEN Goto(m, "done") ELSE Propagate(m, res)
    /\ UNCHANGED << smVars, msg, calls, localVars >>

\* await message.add_reaction(hourglass), outside any try, then the choice of
\* the coroutine
Ack(m) ==
    /\ pc[m] = "ack"
    /\ \E res \in Outcomes(m) :
         /\ ChatOp(m, "add_reaction", WORKING, EmptyStr, res)
         /\ IF res # "ok"
            THEN Propagate(m, res) /\ UNCHANGED proc
            ELSE LET class == Classify(msg[m], content[m]) IN
                 IF class = "AttributeError"
                 THEN RaiseInOnMessage(m, ExcText(class)) /\ UNCHANGED proc
                 ELSE Goto(m, "p_ack") /\ proc' = [proc EXCEPT ![m] = class]
    /\ UNCHANGED << smVars, msg, calls, content, error_detail, api_response, chunks, idx >>

\* one operation of the except clause of on_message: nothing catches what it
\* raises
OuterHandlerStep(m, op, marker, text, next) ==
    /\ \E res \in Outcomes(m) :
         /\ ChatOp(m, op, marker, text, res)
         /\ IF res = "ok" THEN Goto(m, next) ELSE Propagate(m, res)
    /\ UNCHANGED << smVars, msg, calls, localVars >>

OmClear(m) ==
    pc[m] = "om_clear" /\ OuterHandlerStep(m, "clear_reactions", "", EmptyStr, "om_add")

OmAdd(m) ==
    pc[m] = "om_add" /\ OuterHandlerStep(m, "add_reaction", FAILURE, EmptyStr, "om_reply")

OmReply(m) ==
    pc[m] = "om_reply" /\ OuterHandlerStep(m, "reply", "", ErrorReply(e[m]), "done")

(***************************************************************************)
(* process_text, process_image, process_image_url.                         *)
(***************************************************************************)
\* an operation in the try of process_*, outside the inner try of the
\* replies: `except Exception` takes what it raises, NotFound too
TryStep(m, op, marker, text, next) ==
    /\ \E res \in Outcomes(m) :
         /\ ChatOp(m, op, marker, text, res)
         /\ IF res = "ok" THEN Goto(m, next) ELSE RaiseInProcess(m, res, ExcText(res))
    /\ UNCHANGED << smVars, msg, calls, localVars >>

\* await message.add_reaction(hourglass), first statement of the try
PAck(m) ==
    /\ pc[m] = "p_ack"
    /\ TryStep(m, "add_reaction", WORKING, EmptyStr,
               IF proc[m] = "process_text" THEN "post"
               ELSE IF proc[m] = "process_image" THEN "read"
               ELSE "get")

\* a process_image that goes on to the POST without the attachment's bytes
Read_NotAwaited(m) ==
    /\ pc[m] = "read"
    /\ Goto(m, "post")
    /\ UNCHANGED << smVars, msg, chatVars, calls, localVars >>

\* image_data = await attachment.read()
Read(m) ==
    /\ pc[m] = "read"
    /\ \E res \in ReadOutcomes :
         /\ calls' = [calls EXCEPT ![m] =
                        Append(@, [method |-> "GET", target |-> "attachment", outcome |-> res])]
         /\ IF res = "ok" THEN Goto(m, "post") ELSE RaiseInProcess(m, res, ExcText(res))
    /\ UNCHANGED << smVars, msg, chatVars, localVars >>

\* a download that hands whatever body it got to the formatting API
Get_IgnoresStatus(m) ==
    /\ pc[m] = "get"
    /\ \E res \in DownloadOutcomes :
         /\ calls' = [calls EXCEPT ![m] =
                        Append(@, [method |-> "GET", target |-> "url", outcome |-> res])]
         /\ IF res \in {"200", "404"} THEN Goto(m, "post")
            ELSE RaiseInProcess(m, res, ExcText(res))
    /\ UNCHANGED << smVars, msg, chatVars, localVars >>

\* session.get(url, timeout 60 s) and response.read()
Get(m) ==
    /\ pc[m] = "get"
    /\ \E res \in DownloadOutcomes :
         /\ calls' = [calls EXCEPT ![m] =
                        Append(@, [method |-> "GET", target |-> "url", outcome |-> res])]
         /\ IF res = "200" THEN Goto(m, "post")
            ELSE IF res = "404"
            THEN RaiseInProcess(m, "Exception", Tok("Failed to download image: HTTP 404"))
            ELSE RaiseInProcess(m, res, ExcText(res))
    /\ UNCHANGED << smVars, msg, chatVars, localVars >>

\* session.post(API_URL/format/..., timeout 180 s) and the reading of its
\* response, up to the next await on the message
Post(m) ==
    /\ pc[m] = "post"
    /\ \E r \in ApiOutcomes :
         /\ calls' = [calls EXCEPT ![m] =
                        Append(@, [method |-> "POST",
                                   target |-> IF proc[m] = "process_text"
                                              THEN "/format/text" ELSE "/format/image",
                                   outcome |-> IF r.outcome = "response"
                                               THEN IF r.status = 200 THEN "200" ELSE "500"
                                               ELSE r.outcome])]
         /\ api_response' = [api_response EXCEPT ![m] = r]
         /\ IF r.outcome # "response"
            THEN /\ RaiseInProcess(m, r.outcome, ExcText(r.outcome))
                 /\ UNCHANGED << error_detail, chunks >>
            ELSE IF r.status # 200
            THEN /\ error_detail' = [error_detail EXCEPT ![m] = ErrorDetail(r)]
                 /\ Ctl(m, "err_clear", e[m], << "API error response" >>, raised[m])
                 /\ UNCHANGED chunks
            ELSE IF ~r.json
            THEN /\ RaiseInProcess(m, "ContentTypeError", ExcText("ContentTypeError"))
                 /\ UNCHANGED << error_detail, chunks >>
            ELSE /\ chunks' = [chunks EXCEPT ![m] = split_message(FormattedDates(r))]
                 /\ UNCHANGED error_detail
                 /\ IF chunks'[m] = << >>
                    THEN RaiseInProcess(m, "IndexError", Tok("list index out of range"))
                    ELSE Goto(m, "first")
    /\ UNCHANGED << smVars, msg, chatVars, proc, content, idx >>

\* the branch of a response that is not 200
ErrClear(m) ==
    pc[m] = "err_clear" /\ TryStep(m, "clear_reactions", "", EmptyStr, "err_add")

ErrAdd(m) ==
    pc[m] = "err_add" /\ TryStep(m, "add_reaction", FAILURE, EmptyStr, "err_reply")

ErrReply(m) ==
    pc[m] = "err_reply" /\ TryStep(m, "reply", "", ErrorReply(error_detail[m]), "done")

\* a reply in an inner try: NotFound is logged and the coroutine returns, any
\* other exception goes to `except Exception`
ReplyStep(m, text, next, expired) ==
    \E res \in Outcomes(m) :
        /\ ChatOp(m, "reply", "", text, res)
        /\ IF res = "ok" THEN Goto(m, next)
           ELSE IF res = "NotFound" THEN Ctl(m, "done", e[m], << expired >>, raised[m])
           ELSE RaiseInProcess(m, res, ExcText(res))

\* the first chunk
First(m) ==
    /\ pc[m] = "first"
    /\ ReplyStep(m, FirstReply(chunks[m][1]),
                 IF Len(chunks[m]) > 1 THEN "follow" ELSE "done",
                 "Initial interaction expired, creating new message")
    /\ idx' = [idx EXCEPT ![m] = 1]
    /\ UNCHANGED << smVars, msg, calls, proc, content, error_detail, api_response, chunks >>

\* one turn of the loop over chunks[1:]
Follow(m) ==
    /\ pc[m] = "follow"
    /\ ReplyStep(m, ContinuedReply(FollowUps(chunks[m])[idx[m]]),
                 IF idx[m] < Len(FollowUps(chunks[m])) THEN "follow" ELSE "done",
                 "Follow-up interaction expired")
    /\ idx' = [idx EXCEPT ![m] = @ + 1]
    /\ UNCHANGED << smVars, msg, calls, proc, content, error_detail, api_response, chunks >>

\* one operation of an except clause of process_*: NotFound is logged and
\* swallowed, any other exception leaves process_* for on_message's except
InnerHandlerStep(m, op, marker, text, next, expired) ==
    /\ \E res \in Outcomes(m) :
         /\ ChatOp(m, op, marker, text, res)
         /\ IF res = "ok" THEN Goto(m, next)
            ELSE IF res = "NotFound" THEN Ctl(m, "done", e[m], << expired >>, raised[m])
            ELSE RaiseInOnMessage(m, ExcText(res))
    /\ UNCHANGED << smVars, msg, calls, localVars >>

\* except asyncio.TimeoutError
ToClear(m) ==
    /\ pc[m] = "to_clear"
    /\ InnerHandlerStep(m, "clear_reactions", "", EmptyStr, "to_add",
                        "Interaction expired during timeout")

ToAdd(m) ==
    /\ pc[m] = "to_add"
    /\ InnerHandlerStep(m, "add_reaction", FAILURE, EmptyStr, "to_reply",
                        "Interaction expired during timeout")

ToReply(m) ==
    /\ pc[m] = "to_reply"
    /\ InnerHandlerStep(m, "reply", "", TIMEOUT_REPLY, "done",
                        "Interaction expired during timeout")

\* an `except Exception` that adds the failure marker on top of the markers
\* the message carries
ExClear_Skipped(m) ==
    /\ pc[m] = "ex_clear"
    /\ Goto(m, "ex_add")
    /\ UNCHANGED << smVars, msg, calls, chatVars, localVars >>

\* except Exception as e
ExClear(m) ==
    /\ pc[m] = "ex_clear"
    /\ InnerHandlerStep(m, "clear_reactions", "", EmptyStr, "ex_add",
                        "Interaction expired during error handling")

ExAdd(m) ==
    /\ pc[m] = "ex_add"
    /\ InnerHandlerStep(m, "add_reaction", FAILURE, EmptyStr, "ex_reply",
                        "Interaction expired during error handling")

ExReply(m) ==
    /\ pc[m] = "ex_reply"
    /\ InnerHandlerStep(m, "reply", "", ErrorReply(e[m]), "done",
                        "Interaction expired during error handling")

(***************************************************************************)
(* One dispatch.                                                           *)
(***************************************************************************)
Init ==
    /\ sm_pc = "unused"
    /\ sm_message = EmptyStr
    /\ sm_chunks = << >>
    /\ DispatchInit({"m1"})

Next ==
    \E m \in Msgs :
        \/ OnMessage(m)
        \/ Prompt(m)
        \/ Ack(m)
        \/ OmClear(m)
        \/ OmAdd(m)
        \/ OmReply(m)
        \/ PAck(m)
        \/ Read(m)
        \/ Get(m)
        \/ Post(m)
        \/ ErrClear(m)
        \/ ErrAdd(m)
        \/ ErrReply(m)
        \/ First(m)
        \/ Follow(m)
        \/ ToClear(m)
        \/ ToAdd(m)
        \/ ToReply(m)
        \/ ExClear(m)
        \/ ExAdd(m)
        \/ ExReply(m)

Spec == Init /\ [][Next]_vars

\* the event loop runs every coroutine that can go on
FairSpec == Spec /\ WF_vars(Next)

(***************************************************************************)
(* Two dispatches.  discord.py schedules one on_message task per event; a  *)
(* task runs until its next await, where the event loop may go on with the *)
(* other task.                                                             *)
(***************************************************************************)
\* one message for each path of on_message: nothing but the mention, a text,
\* an image attachment, the URL of an image
PairMessages ==
    { [mentioned |-> TRUE, author |-> "user", content |-> c, attachments |-> a] :
        << c, a >> \in { << Tok(MENTION), << >> >>,
                         << << Run(MENTION, 1), Run("x", 1) >>, << >> >>,
                         << Tok(MENTION), << Attachment(IMAGE_PNG) >> >>,
                         << << Run("http://", 1), Run(".PNG", 1) >>, << >> >> } }

\* the messages that take the two paths with the most awaits: the text and
\* the URL
PairSecond == { message \in PairMessages : message.content # Tok(MENTION) }

\* "m1" on its own, or "m1" and "m2" together, "m2" one of PairSecond
PairInit ==
    /\ sm_pc = "unused"
    /\ sm_message = EmptyStr
    /\ sm_chunks = << >>
    /\ \E delivered \in {{"m1"}, Msgs} : DispatchInitFrom(delivered, PairMessages)
    /\ msg["m2"] \in PairSecond \cup {NoMessage}

PairSpec == PairInit /\ [][Next]_vars

(***************************************************************************)
(* Properties of split_message, checked under SplitSpec.                   *)
(***************************************************************************)
Returned == sm_pc = "return"

InputLines == SplitLines(sm_message)

Oversized(line) == StrLen(line) > MAX_DISCORD_LENGTH

\* a line with no character but whitespace
Blank(line) == Strip(line) = EmptyStr

RECURSIVE FlattenLines(_)
FlattenLines(cs) ==
    IF cs = << >> THEN << >>
    ELSE SplitLines(Head(cs)) \o FlattenLines(Tail(cs))

\* the lines of the chunks, in chunk order
OutputLines == FlattenLines(sm_chunks)

RECURSIVE IsSubseq(_, _)
IsSubseq(a, b) ==
    IF a = << >> THEN TRUE
    ELSE IF b = << >> THEN FALSE
    ELSE IF Head(a) = Head(b) THEN IsSubseq(Tail(a), Tail(b))
    ELSE IsSubseq(a, Tail(b))

\* `out` is `lines` with some blank lines removed and some lines trimmed at
\* the left, at the right or at both ends
RECURSIVE TrimmedCover(_, _)
TrimmedCover(out, lines) ==
    IF lines = << >> THEN out = << >>
    ELSE \/ /\ out # << >>
            /\ Head(out) \in { Head(lines), LStrip(Head(lines)),
                               RStrip(Head(lines)), Strip(Head(lines)) }
            /\ TrimmedCover(Tail(out), Tail(lines))
         \/ /\ Blank(Head(lines))
            /\ TrimmedCover(out, Tail(lines))

StripAll(lines) == [i \in 1..Len(lines) |-> Strip(lines[i])]

C2_LinesReproducedExactly ==
    Returned => OutputLines = InputLines

\* C2 (amended): the lines of the chunks, in chunk order, are the lines of the
\* input in the original order, except that blank (empty or whitespace-only)
\* lines may be missing and a line may have lost leading or trailing
\* whitespace; and every line that is not blank is there, trimmed or not.
C2_LinesCoveredUpToTrim ==
    Returned =>
        /\ TrimmedCover(OutputLines, InputLines)
        /\ StripAll(SelectSeq(OutputLines, LAMBDA l : ~Blank(l)))
             = StripAll(SelectSeq(InputLines, LAMBDA l : ~Blank(l)))

\* two chunks, a blank line lost and a line trimmed
C2_Witness ==
    /\ Returned
    /\ Len(sm_chunks) >= 2
    /\ Len(OutputLines) < Len(InputLines)
    /\ \E j \in 1..Len(InputLines) :
           /\ ~Blank(InputLines[j])
           /\ Strip(InputLines[j]) # InputLines[j]

\* C3: every input line longer than MAX_DISCORD_LENGTH comes out whole, as a
\* chunk equal to that line trimmed and holding nothing else; these chunks
\* appear in the order of their lines.
C3_OversizedLineIsItsOwnChunk ==
    Returned =>
        IsSubseq(StripAll(SelectSeq(InputLines, Oversized)), sm_chunks)

\* an oversized line between two lines that are not blank
C3_Witness ==
    /\ Returned
    /\ \E j \in 2..(Len(InputLines) - 1) :
           /\ Oversized(InputLines[j])
           /\ ~Blank(InputLines[j - 1])
           /\ ~Blank(InputLines[j + 1])
           /\ ~Oversized(InputLines[j - 1])
    /\ Len(sm_chunks) = 3

(***************************************************************************)
(* Properties of a dispatch, checked under Spec (C7 under FairSpec).       *)
(***************************************************************************)
Done(m) == pc[m] = "done"

\* every Discord operation the dispatch attempted succeeded
AllOk(m) == \A k \in 1..Len(ops[m]) : ops[m][k].res = "ok"

\* every reply the dispatch attempted succeeded
AllRepliesOk(m) ==
    \A k \in 1..Len(ops[m]) : ops[m][k].op = "reply" => ops[m][k].res = "ok"

\* the operations attempted, without their outcomes
Attempted(m) == [k \in 1..Len(ops[m]) |-> << ops[m][k].op, ops[m][k].marker >>]

\* a reply that carries a chunk: it opens a preformatted block
IsResultReply(text) == text # << >> /\ text[1].c = BQ

\* a reply that reports an error
IsErrorReply(text) ==
    text # << >> /\ (text[1].c = "Error:" \/ text = TIMEOUT_REPLY)

ErrorReplyCount(m) ==
    Cardinality({ k \in 1..Len(replies[m]) : IsErrorReply(replies[m][k]) })

\* some step of the dispatch failed
Failed(m) ==
    \/ \E k \in 1..Len(ops[m]) : ops[m][k].res # "ok"
    \/ \E k \in 1..Len(calls[m]) : calls[m][k].outcome \notin {"ok", "200"}
    \/ raised[m] # ""

\* C4: a message that does not mention the bot, or that the bot wrote itself
\* (mentioned in it or not), leaves no trace: no marker, no reply, no Discord
\* operation attempted, no outbound HTTP call, nothing logged or raised.
C4_IgnoredMessageHasNoEffect ==
    \A m \in Msgs :
        (~msg[m].mentioned \/ msg[m].author = BOT) =>
            /\ reactions[m] = {}
            /\ replies[m] = << >>
            /\ ops[m] = << >>
            /\ calls[m] = << >>
            /\ log[m] = << >>
            /\ raised[m] = ""

\* on_message has run on a message of the bot's own that mentions the bot,
\* with text and an image attached
C4_Witness ==
    \E m \in Msgs :
        /\ Done(m)
        /\ msg[m].mentioned
        /\ msg[m].author = BOT
        /\ StrippedContent(msg[m]) # EmptyStr
        /\ msg[m].attachments = << Attachment(IMAGE_PNG) >>

\* C5 as stated: no exception leaves on_message, and a dispatch in which a
\* step failed ends with exactly one error reply, or with only a log entry
\* when the message is gone.
C5_EveryFailureCaughtAndReportedOnce ==
    \A m \in Msgs :
        /\ raised[m] = ""
        /\ (Done(m) /\ Failed(m)) =>
              \/ ErrorReplyCount(m) = 1
              \/ gone[m] /\ log[m] # << >>

\* C6: when the formatting API answers with a status other than 200 and a
\* JSON body with a detail, on any of the three paths, no reply carrying a
\* chunk is ever sent; and when the Discord operations of the dispatch
\* succeed, it ends having cleared the reactions, added the failure marker
\* and sent one reply, "Error: " followed by the detail, as its last three
\* operations and its only reply.
C6_ApiErrorDetailReported ==
    \A m \in Msgs :
        LET r == api_response[m] IN
        (r.outcome = "response" /\ r.status # 200 /\ r.json /\ r.has_key) =>
            /\ \A k \in 1..Len(replies[m]) : ~IsResultReply(replies[m][k])
            /\ (Done(m) /\ AllOk(m)) =>
                  /\ reactions[m] = {FAILURE}
                  /\ replies[m] = << Cat(<< Run("Error:", 1), Run(SP, 1) >>, r.value) >>
                  /\ calls[m][Len(calls[m])].method = "POST"
                  /\ SubSeq(Attempted(m), Len(ops[m]) - 2, Len(ops[m]))
                       = << << "clear_reactions", "" >>,
                            << "add_reaction", FAILURE >>,
                            << "reply", "" >> >>

\* the image-URL path ended on a 500 with the detail "bad input"
C6_Witness ==
    \E m \in Msgs :
        /\ Done(m)
        /\ AllOk(m)
        /\ proc[m] = "process_image_url"
        /\ api_response[m] = Response(500, TRUE, TRUE, BAD_INPUT, EmptyStr)
        /\ replies[m] = << << Run("Error:", 1), Run(SP, 1), Run("bad input", 1) >> >>

\* a GET of the user's URL or a POST to the formatting API ran into its
\* timeout
TimedOut(m) ==
    \E k \in 1..Len(calls[m]) :
        /\ calls[m][k].outcome = "TimeoutError"
        /\ calls[m][k].target \in {"url", "/format/text", "/format/image"}

\* C7: a dispatch whose GET of the URL or POST to the formatting API timed
\* out comes to its end; and when its Discord operations succeed, it ends
\* with the failure marker as the only marker and with "Error: Request timed
\* out. Please try again." as the only reply.
C7_TimeoutReportedAndDispatchEnds ==
    /\ [](\A m \in Msgs :
            (TimedOut(m) /\ Done(m) /\ AllOk(m)) =>
                /\ reactions[m] = {FAILURE}
                /\ replies[m] = << Tok("Error: Request timed out. Please try again.") >>)
    /\ \A m \in Msgs : TimedOut(m) ~> Done(m)

\* the image-URL path ended after the download timed out
C7_Witness ==
    \E m \in Msgs :
        /\ Done(m)
        /\ AllOk(m)
        /\ calls[m] = << [method |-> "GET", target |-> "url", outcome |-> "TimeoutError"] >>
        /\ reactions[m] = {FAILURE}
        /\ Len(replies[m]) = 1

\* C8 as stated: after an operation on the message failed with NotFound the
\* dispatch attempts no other operation on it: a NotFound is the last
\* operation of the dispatch.
C8_NoOperationAfterNotFound ==
    \A m \in Msgs :
        \A k \in 1..(Len(ops[m]) - 1) : ops[m][k].res # "NotFound"

\* text.endswith(t), t a token
EndsWith(s, t) == s # << >> /\ s[Len(s)].c = t

\* the path C9 gives a message
C9_Path(message) ==
    LET text == StrippedContent(message) IN
    IF /\ message.attachments # << >>
       /\ message.attachments[1].content_type # None
       /\ StartsWith(message.attachments[1].content_type, {"image/"})
    THEN "process_image"
    ELSE IF /\ StartsWith(text, URL_PREFIXES)
            /\ \E ext \in IMAGE_EXTENSIONS : EndsWith(Lower(text), ext)
    THEN "process_image_url"
    ELSE "process_text"

\* C9 as stated: a relevant message with text or an attachment, once
\* acknowledged, is on the image path iff its first attachment's content type
\* begins with image/, else on the image-URL path iff its stripped text
\* starts with http:// or https:// and ends in an image extension, else on
\* the text path.
C9_ClassifiedInPriorityOrder ==
    \A m \in Msgs :
        (Len(ops[m]) >= 1 /\ ops[m][1] = [op |-> "add_reaction", marker |-> WORKING, res |-> "ok"])
            => proc[m] = C9_Path(msg[m])

\* C10: when the formatting API answers 200 with a JSON body whose result
\* text splits into n >= 1 chunks and every reply succeeds, the dispatch ends
\* having sent n replies: the first chunk in a preformatted block followed by
\* the disclaimer, then each later chunk, in order, in a preformatted block
\* that opens with "(continued...)".  The result "A\nB" gives one reply.
C10_OneReplyPerChunkInOrder ==
    \A m \in Msgs :
        LET r == api_response[m]
            cs == split_message(FormattedDates(r))
        IN
        (r.outcome = "response" /\ r.status = 200 /\ r.json
            /\ Done(m) /\ AllRepliesOk(m) /\ Len(cs) >= 1) =>
            /\ Len(replies[m]) = Len(cs)
            /\ replies[m][1] =
                 Cat(<< Run(BQ, 3), Run(NL, 1) >>,
                     Cat(cs[1],
                         << Run(NL, 1), Run(BQ, 3), Run(NL, 2),
                            Run("Please double-check all info as Better Lover can make mistakes.", 1) >>))
            /\ \A k \in 2..Len(cs) :
                 replies[m][k] =
                   Cat(<< Run(BQ, 3), Run(NL, 1), Run("(continued...)", 1), Run(NL, 1) >>,
                       Cat(cs[k], << Run(NL, 1), Run(BQ, 3) >>))
            /\ (r.has_key /\ r.value = << Run("A", 1), Run(NL, 1), Run("B", 1) >>)
                 => Len(replies[m]) = 1

\* the image path ended after three replies for three chunks
C10_Witness ==
    \E m \in Msgs :
        /\ Done(m)
        /\ proc[m] = "process_image"
        /\ Len(chunks[m]) = 3
        /\ Len(replies[m]) = 3
        /\ \A k \in 1..3 : IsResultReply(replies[m][k])

\* the outbound calls of a dispatch that are POSTs to the formatting API
PostCalls(m) == { k \in 1..Len(calls[m]) : calls[m][k].method = "POST" }

\* the outbound calls of a dispatch that are GETs of a user's URL
UrlCalls(m) == { k \in 1..Len(calls[m]) : calls[m][k].target = "url" }

\* an outbound call that did not come to a 200 / to the attachment's bytes
FailedCall(c) == c.outcome \notin {"ok", "200"}

\* C11: in every state of a dispatch, whatever its outcome, at most one POST
\* was made to the formatting API and at most one GET to a user's URL, and a
\* call that failed is the last outbound call of the dispatch: it is never
\* made again.
C11_NoCallIsRepeated ==
    \A m \in Msgs :
        /\ Cardinality(PostCalls(m)) <= 1
        /\ Cardinality(UrlCalls(m)) <= 1
        /\ \A k \in 1..Len(calls[m]) : FailedCall(calls[m][k]) => k = Len(calls[m])

\* the URL path ended after one download and one POST that timed out, with
\* the timeout reply sent
C11_Witness ==
    \E m \in Msgs :
        /\ Done(m)
        /\ proc[m] = "process_image_url"
        /\ Len(calls[m]) = 2
        /\ calls[m][1].target = "url"
        /\ calls[m][2].method = "POST" /\ calls[m][2].outcome = "TimeoutError"
        /\ replies[m] = << TIMEOUT_REPLY >>

\* the GET of the user's URL came back with a status other than 200
DownloadRefused(m) ==
    \E k \in 1..Len(calls[m]) :
        calls[m][k].target = "url" /\ calls[m][k].outcome = "404"

\* f"Error: {e}" of Exception(f"Failed to download image: HTTP {status}")
DOWNLOAD_ERROR_REPLY == ErrorReply(Tok("Failed to download image: HTTP 404"))

\* C12: on the image-URL path, once the GET of the URL has returned a status
\* other than 200, the dispatch never POSTs to the formatting API, never
\* sends a result reply and never sends more than one reply; when its Discord
\* operations succeed it ends with the failure marker as the only marker and
\* with the one reply "Error: Failed to download image: HTTP <status>".
C12_DownloadErrorReportedWithoutPost ==
    \A m \in Msgs :
        DownloadRefused(m) =>
            /\ proc[m] = "process_image_url"
            /\ PostCalls(m) = {}
            /\ Len(calls[m]) = 1
            /\ Len(replies[m]) <= 1
            /\ \A k \in 1..Len(replies[m]) : IsErrorReply(replies[m][k])
            /\ (Done(m) /\ AllOk(m)) =>
                 /\ reactions[m] = {FAILURE}
                 /\ replies[m] = << DOWNLOAD_ERROR_REPLY >>

\* the URL path ended after a refused download with the failure marker set
\* and the error reply sent
C12_Witness ==
    \E m \in Msgs :
        /\ Done(m) /\ AllOk(m)
        /\ DownloadRefused(m)
        /\ FAILURE \in reactions[m]
        /\ replies[m] = << DOWNLOAD_ERROR_REPLY >>

\* a delivered message the bot answers, made of mentions and whitespace
\* only, with no attachment
NoInput(m) ==
    /\ pc[m] # "none"
    /\ msg[m].mentioned /\ msg[m].author # BOT
    /\ \A k \in 1..Len(msg[m].content) :
           msg[m].content[k].c \in {MENTION, NICK_MENTION, SP, NL}
    /\ msg[m].attachments = << >>

\* C13: a message that mentions the bot, is not the bot's own, has no text
\* left once the mentions are stripped and has no attachment gets one
\* operation at most, the reply that asks for input: no marker is ever added
\* or cleared, no outbound call is made, and when that reply succeeds the
\* dispatch ends with it as its only reply.
C13_MissingInputGetsOnePrompt ==
    \A m \in Msgs :
        NoInput(m) =>
            /\ reactions[m] = {}
            /\ calls[m] = << >>
            /\ proc[m] = ""
            /\ Len(ops[m]) <= 1
            /\ \A k \in 1..Len(ops[m]) : ops[m][k].op = "reply"
            /\ \A k \in 1..Len(replies[m]) : replies[m][k] = PROMPT
            /\ (Done(m) /\ AllOk(m)) => replies[m] = << PROMPT >>

\* a mention followed by a space was answered with the prompt
C13_Witness ==
    \E m \in Msgs :
        /\ Done(m)
        /\ NoInput(m)
        /\ msg[m].content = << Run(MENTION, 1), Run(SP, 1) >>
        /\ replies[m] = << PROMPT >>
        /\ Len(ops[m]) = 1

(***************************************************************************)
(* Properties of two interleaved dispatches, checked under PairSpec.       *)
(***************************************************************************)
\* everything a dispatch reads or writes: its message, the locals of its
\* coroutines, what it did to the message and to the network
Own(m) ==
    << msg[m], pc[m], proc[m], content[m], e[m], error_detail[m], api_response[m],
       chunks[m], idx[m], reactions[m], replies[m], ops[m], gone[m], calls[m],
       log[m], raised[m] >>

\* the replies of a result text, one per chunk
ResultReplies(cs) ==
    [k \in 1..Len(cs) |-> IF k = 1 THEN FirstReply(cs[1]) ELSE ContinuedReply(cs[k])]

\* what a dispatch whose Discord operations all succeed replies, from its own
\* message and from what its own outbound calls came to
ExpectedReplies(m) ==
    IF Ignored(msg[m]) THEN << >>
    ELSE IF NoInput(m) THEN << PROMPT >>
    ELSE IF Classify(msg[m], StrippedContent(msg[m])) = "AttributeError"
    THEN << ErrorReply(Tok("AttributeError")) >>
    ELSE LET last == calls[m][Len(calls[m])]
             r == api_response[m]
             cs == split_message(FormattedDates(r))
         IN
         IF last.outcome = "TimeoutError" THEN << TIMEOUT_REPLY >>
         ELSE IF last.outcome = "404" THEN << DOWNLOAD_ERROR_REPLY >>
         ELSE IF last.outcome = "500" THEN << ErrorReply(ErrorDetail(r)) >>
         ELSE IF FailedCall(last) THEN << ErrorReply(Tok(last.outcome)) >>
         ELSE IF ~r.json THEN << ErrorReply(Tok("ContentTypeError")) >>
         ELSE IF cs = << >> THEN << ErrorReply(Tok("list index out of range")) >>
         ELSE ResultReplies(cs)

\* the markers such a dispatch leaves on its message
ExpectedReactions(m) ==
    IF replies[m] = << >> \/ replies[m] = << PROMPT >> THEN {}
    ELSE IF IsResultReply(replies[m][1]) THEN {WORKING}
    ELSE {FAILURE}

\* C14: when the steps of two dispatches for two different messages are
\* interleaved at their awaits, every step changes what belongs to one
\* dispatch only (its message's markers and replies, its locals, its outbound
\* calls) and leaves the other dispatch's untouched; and a dispatch that ends
\* with its Discord operations successful has left on its own message the
\* replies and markers that its own message and the outcomes of its own
\* outbound calls determine, the same whether it ran alone or interleaved
\* with the other.
C14_DispatchesDoNotInterfere ==
    /\ [](\A m \in Msgs :
            (Done(m) /\ AllOk(m)) =>
                /\ replies[m] = ExpectedReplies(m)
                /\ reactions[m] = ExpectedReactions(m))
    /\ [][\E m \in Msgs : \A o \in Msgs \ {m} : Own(o)' = Own(o)]_vars

\* while "m1" is suspended at its call of the formatting API, with its
\* working marker set, "m2" has run to its end and reported a timeout on its
\* own message
C14_Witness ==
    /\ pc["m1"] = "post"
    /\ reactions["m1"] = {WORKING}
    /\ replies["m1"] = << >>
    /\ Done("m2") /\ AllOk("m2")
    /\ reactions["m2"] = {FAILURE}
    /\ replies["m2"] = << TIMEOUT_REPLY >>

(***************************************************************************)
(* More properties of one dispatch, checked under Spec.                    *)
(***************************************************************************)
\* the record of a Discord operation that succeeded
OkOp(op, marker) == [op |-> op, marker |-> marker, res |-> "ok"]

\* the dispatch attempted to add the failure marker
FailureMarkerAttempted(m) ==
    \E k \in 1..Len(ops[m]) :
        ops[m][k].op = "add_reaction" /\ ops[m][k].marker = FAILURE

\* the formatting API answered 200
PostReturned200(m) ==
    \E k \in PostCalls(m) : calls[m][k].outcome = "200"

\* an outbound call of the dispatch has come to something a failure marker
\* reports on: a call that failed, or a 200 whose body is not JSON or holds
\* no chunk
CallToReport(m) ==
    /\ calls[m] # << >>
    /\ LET last == calls[m][Len(calls[m])] IN
       \/ FailedCall(last)
       \/ /\ last.method = "POST"
          /\ \/ ~api_response[m].json
             \/ split_message(FormattedDates(api_response[m])) = << >>

\* C15: in a dispatch that passed the relevance and input checks the steps
\* come in a strict order.  No step both touches the message and makes an
\* outbound call.  When an outbound call has been issued, the working marker
\* was added before (the dispatch's first two operations are its two
\* successful additions).  When the POST has been issued on an image path,
\* the download was issued before it and had succeeded.  When a reply
\* carrying a chunk has been sent or is about to be, the POST has returned
\* 200.  When the failure marker has been attempted and neither a Discord
\* operation nor the classification had failed, an outbound call has failed
\* or returned an unusable body.
C15_StepsInStrictOrder ==
    /\ [](\A m \in Msgs :
            /\ calls[m] # << >> =>
                 /\ Len(ops[m]) >= 2
                 /\ ops[m][1] = OkOp("add_reaction", WORKING)
                 /\ ops[m][2] = OkOp("add_reaction", WORKING)
            /\ \A k \in PostCalls(m) :
                 IF proc[m] = "process_text" THEN k = 1
                 ELSE /\ k = 2
                      /\ calls[m][1].method = "GET"
                      /\ calls[m][1].target =
                           (IF proc[m] = "process_image" THEN "attachment" ELSE "url")
                      /\ ~FailedCall(calls[m][1])
            /\ (pc[m] \in {"first", "follow"}
                  \/ \E k \in 1..Len(replies[m]) : IsResultReply(replies[m][k]))
                 => PostReturned200(m)
            /\ (/\ FailureMarkerAttempted(m)
                /\ \A k \in 1..Len(ops[m]) : ops[m][k].res # "HTTPException"
                /\ Classify(msg[m], content[m]) # "AttributeError")
                 => CallToReport(m))
    /\ [][\A m \in Msgs : ops'[m] = ops[m] \/ calls'[m] = calls[m]]_vars

\* the URL path ended well: two markers, the download, the POST, one reply
C15_Witness ==
    \E m \in Msgs :
        /\ Done(m) /\ AllOk(m)
        /\ proc[m] = "process_image_url"
        /\ Attempted(m) = << << "add_reaction", WORKING >>, << "add_reaction", WORKING >>,
                             << "reply", "" >> >>
        /\ Len(calls[m]) = 2
        /\ calls[m][1].target = "url" /\ calls[m][1].outcome = "200"
        /\ calls[m][2].method = "POST" /\ calls[m][2].outcome = "200"
        /\ Len(replies[m]) = 1 /\ IsResultReply(replies[m][1])

\* the formatting API answered 200 with a JSON body
Returned200Json(m) ==
    /\ api_response[m].outcome = "response"
    /\ api_response[m].status = 200
    /\ api_response[m].json

\* C16: on a 200 response, whatever formatted_dates is (absent, the empty
\* string, whitespace only, any text), a dispatch whose replies succeed ends
\* having sent at least one reply that carries a chunk and never attempts the
\* failure marker; when formatted_dates is absent its first reply carries
\* "Error: No dates found".
C16_EveryResultGetsAResultReply ==
    \A m \in Msgs :
        (Returned200Json(m) /\ Done(m) /\ AllRepliesOk(m)) =>
            /\ \E k \in 1..Len(replies[m]) : IsResultReply(replies[m][k])
            /\ ~FailureMarkerAttempted(m)
            /\ ~api_response[m].has_key => replies[m][1] = FirstReply(NO_DATES)

\* the same for every value of formatted_dates but the empty string
C16_ExceptEmptyString ==
    \A m \in Msgs :
        (/\ Returned200Json(m) /\ Done(m) /\ AllRepliesOk(m)
         /\ ~(api_response[m].has_key /\ api_response[m].value = EmptyStr)) =>
            /\ \E k \in 1..Len(replies[m]) : IsResultReply(replies[m][k])
            /\ ~FailureMarkerAttempted(m)
            /\ ~api_response[m].has_key => replies[m][1] = FirstReply(NO_DATES)

\* every line of the result text is at most MAX_DISCORD_LENGTH long
LinesWithinLimit(text) ==
    \A k \in 1..Len(SplitLines(text)) :
        StrLen(SplitLines(text)[k]) <= MAX_DISCORD_LENGTH

\* C17: the room MAX_DISCORD_LENGTH leaves is enough for the wrappers: when
\* every line of the result text is at most MAX_DISCORD_LENGTH long, every
\* reply the dispatch sends (the first chunk between its block markers with
\* the disclaimer, each later chunk between its block markers after
\* "(continued...)") is at most 2000 characters long.
C17_EveryReplyWithinPlatformLimit ==
    \A m \in Msgs :
        (Returned200Json(m) /\ LinesWithinLimit(FormattedDates(api_response[m]))) =>
            \A k \in 1..Len(replies[m]) : StrLen(replies[m][k]) <= PLATFORM_LIMIT

\* what does hold: the wrappers add 73 characters to the first chunk and 23
\* to each later one, so a reply is at most 2063 characters long
C17_ReplyWithinLimitPlusWrappers ==
    \A m \in Msgs :
        (Returned200Json(m) /\ LinesWithinLimit(FormattedDates(api_response[m]))) =>
            \A k \in 1..Len(replies[m]) :
                IsResultReply(replies[m][k]) =>
                    /\ StrLen(replies[m][k]) =
                         StrLen(chunks[m][k]) + (IF k = 1 THEN 73 ELSE 23)
                    /\ StrLen(replies[m][k]) <= MAX_DISCORD_LENGTH + 73

\* the k-th operation of the dispatch is an attempt to add `marker`
AddsMarker(m, k, marker) ==
    ops[m][k].op = "add_reaction" /\ ops[m][k].marker = marker

\* C18: in every state of a dispatch the message does not carry the working
\* marker and the failure marker together; every attempt to add the failure
\* marker comes right after a clear_reactions that succeeded; and no attempt
\* to add the working marker comes after an attempt to add the failure
\* marker.
C18_WorkingAndFailureMarkersExclusive ==
    \A m \in Msgs :
        /\ ~({WORKING, FAILURE} \subseteq reactions[m])
        /\ \A k \in 1..Len(ops[m]) :
             AddsMarker(m, k, FAILURE) =>
                 /\ k > 1
                 /\ ops[m][k - 1] = OkOp("clear_reactions", "")
        /\ \A j, k \in 1..Len(ops[m]) :
             (j < k /\ AddsMarker(m, j, FAILURE)) => ~AddsMarker(m, k, WORKING)

\* the working marker was added twice, cleared, and replaced by the failure
\* marker
C18_Witness ==
    \E m \in Msgs :
        /\ reactions[m] = {FAILURE}
        /\ Len(ops[m]) >= 4
        /\ SubSeq(ops[m], 1, 4) =
             << OkOp("add_reaction", WORKING), OkOp("add_reaction", WORKING),
                OkOp("clear_reactions", ""), OkOp("add_reaction", FAILURE) >>

(***************************************************************************)
(* More properties of split_message, checked under SplitSpec.              *)
(***************************************************************************)
\* the states of the loop of split_message: before the first line and after
\* each line
RECURSIVE SplitStates(_, _)
SplitStates(st, lines) ==
    IF lines = << >> THEN << st >>
    ELSE << st >> \o SplitStates(SplitStep(st, Head(lines)), Tail(lines))

LoopStates ==
    SplitStates([chunks |-> << >>, current_chunk |-> EmptyStr], InputLines)

\* the input holds nothing but newlines
OnlyNewlines(s) == \A k \in 1..Len(s) : s[k].c = NL

\* C19: split_message returns zero chunks for the empty string, and for
\* every input a chunk is appended only from a buffer that is not empty: a
\* turn of the loop that adds a chunk adds the stripped buffer it found, which
\* was not empty, and so does the flush after the loop.  Hence an input
\* returns zero chunks exactly when it holds nothing but newlines.
C19_ChunksComeFromNonEmptyBuffers ==
    Returned =>
        LET S == LoopStates
            last == S[Len(S)]
        IN
        /\ sm_message = EmptyStr => sm_chunks = << >>
        /\ \A i \in 1..(Len(S) - 1) :
             S[i + 1].chunks # S[i].chunks =>
                 /\ S[i].current_chunk # EmptyStr
                 /\ S[i + 1].chunks = Append(S[i].chunks, Strip(S[i].current_chunk))
        /\ IF last.current_chunk # EmptyStr
           THEN sm_chunks = Append(last.chunks, Strip(last.current_chunk))
           ELSE sm_chunks = last.chunks
        /\ sm_chunks = << >> <=> OnlyNewlines(sm_message)

\* two newlines, three empty lines: the buffer is empty after the loop and no
\* chunk is returned
C19_Witness ==
    /\ Returned
    /\ sm_message = << Run(NL, 2) >>
    /\ Len(InputLines) = 3
    /\ sm_chunks = << >>

=============================================================================
